---------------------------- MODULE Spec2Model ----------------------------
(*************************************************************************)
(* Model of 03_data_utils.py (POSSIM Customer Priority Maker utilities). *)
(*                                                                       *)
(* Strings are sequences of one-character tokens.  Characters outside    *)
(* ASCII are written as their code point: "u3000" is the full-width      *)
(* space, "u30FB" the middle dot, "u6771" the kanji U+6771, and so on.   *)
(* A missing value (None / NaN, what pd.isna accepts) is the value NA.   *)
(*************************************************************************)
EXTENDS Integers, Sequences, FiniteSets, TLC

\* ----------------------------------------------------------------------
\* Bounds of the model
\* ----------------------------------------------------------------------
NumRecords == 2
NumSources == 2

\* ----------------------------------------------------------------------
\* Strings
\* ----------------------------------------------------------------------
NA == <<"NaN">>

isna(x) == x = NA

\* str.isspace for the characters of the model: ASCII space and U+3000
IsSpace(c) == c \in {" ", "u3000"}

\* the character class [\s　_\-・] of normalize_name
IsNameSeparator(c) == IsSpace(c) \/ c \in {"_", "-", "u30FB"}

RECURSIVE lstrip(_)
lstrip(s) ==
    IF s # <<>> /\ IsSpace(Head(s)) THEN lstrip(Tail(s)) ELSE s

RECURSIVE rstrip(_)
rstrip(s) ==
    IF s # <<>> /\ IsSpace(s[Len(s)])
    THEN rstrip(SubSeq(s, 1, Len(s) - 1))
    ELSE s

strip(s) == rstrip(lstrip(s))

LowerChar(c) ==
    CASE c = "A" -> "a"
      [] c = "B" -> "b"
      [] c = "C" -> "c"
      [] c = "D" -> "d"
      [] c = "E" -> "e"
      [] c = "F" -> "f"
      [] c = "G" -> "g"
      [] c = "H" -> "h"
      [] c = "I" -> "i"
      [] c = "J" -> "j"
      [] c = "K" -> "k"
      [] c = "L" -> "l"
      [] c = "M" -> "m"
      [] c = "N" -> "n"
      [] c = "O" -> "o"
      [] c = "P" -> "p"
      [] c = "Q" -> "q"
      [] c = "R" -> "r"
      [] c = "S" -> "s"
      [] c = "T" -> "t"
      [] c = "U" -> "u"
      [] c = "V" -> "v"
      [] c = "W" -> "w"
      [] c = "X" -> "x"
      [] c = "Y" -> "y"
      [] c = "Z" -> "z"
      [] OTHER -> c

lower(s) == [i \in 1..Len(s) |-> LowerChar(s[i])]

Contains(s, c) == \E i \in 1..Len(s) : s[i] = c

\* re.sub(r'[\s　_\-・]', '', s): every separator is removed
RemoveSeparators(s) == SelectSeq(s, LAMBDA c : ~IsNameSeparator(c))

\* the same call with count=1: only the first separator is removed
RECURSIVE RemoveFirstSeparator(_)
RemoveFirstSeparator(s) ==
    IF s = <<>> THEN <<>>
    ELSE IF IsNameSeparator(Head(s)) THEN Tail(s)
    ELSE <<Head(s)>> \o RemoveFirstSeparator(Tail(s))

\* ----------------------------------------------------------------------
\* [1] Field normalizers
\* ----------------------------------------------------------------------
normalize_name_first_only(name) ==
    IF isna(name) \/ name = <<>> THEN <<>>
    ELSE strip(RemoveFirstSeparator(name))

normalize_name(name) ==
    IF isna(name) \/ name = <<>> THEN <<>>
    ELSE strip(RemoveSeparators(name))

normalize_email(email) ==
    IF isna(email) \/ email = <<>> THEN <<>>
    ELSE strip(lower(email))

\* ----------------------------------------------------------------------
\* [4] Survey extractor
\* ----------------------------------------------------------------------
\* A survey file is either unreadable (pd.read_excel raises) or a sheet
\* whose name column and e-mail column hold the given non-missing cells.
NameCells == { <<"a", "_">>, <<" ">> }
EmailCells == { <<"A", "@">>, <<"b">> }

UnreadableFile == [readable |-> FALSE, name_cells |-> {}, email_cells |-> {}]

SurveyFiles ==
    {UnreadableFile} \cup
    { [readable |-> TRUE, name_cells |-> n, email_cells |-> e] :
        n \in {{}, NameCells}, e \in {{}, EmailCells} }

EmptyExtract == [names |-> {}, emails |-> {}]

\* extract_survey_data catches every exception of the read itself and
\* returns empty sets, so the except branches of the loop in
\* merge_survey_data_enhanced are never entered by a read failure: an
\* unreadable source runs through both passes with empty sets.

\* a handler that returns a blank placeholder name instead of empty sets
extract_survey_data_placeholder(file) ==
    IF ~file.readable THEN [names |-> {<<>>}, emails |-> {}]
    ELSE [ names |-> { normalize_name(c) : c \in file.name_cells } \ {<<>>},
           emails |-> { e \in { strip(lower(c)) : c \in file.email_cells } :
                          Contains(e, "@") } ]

\* the name side without valid_names = normalized_names[normalized_names != '']
extract_survey_data_keep_blank(file) ==
    IF ~file.readable THEN EmptyExtract
    ELSE [ names |-> { normalize_name(c) : c \in file.name_cells },
           emails |-> { e \in { strip(lower(c)) : c \in file.email_cells } :
                          Contains(e, "@") } ]

extract_survey_data(file) ==
    IF ~file.readable THEN EmptyExtract
    ELSE [ names |-> { normalize_name(c) : c \in file.name_cells } \ {<<>>},
           emails |-> { e \in { strip(lower(c)) : c \in file.email_cells } :
                          Contains(e, "@") } ]


\* ----------------------------------------------------------------------
\* [6] Priority classifier
\* ----------------------------------------------------------------------
\* the first test written as period_num >= 12
calculate_priority_ge12(row, survey_emails) ==
    LET period_num == row.period_num
        email == row.email
        is_survey_respondent == email \in survey_emails
    IN  IF period_num >= 12 THEN 1
        ELSE IF 7 <= period_num /\ period_num <= 11 /\ is_survey_respondent
             THEN 2
        ELSE IF 7 <= period_num /\ period_num <= 11 THEN 3
        ELSE 4

calculate_priority(row, survey_emails) ==
    LET period_num == row.period_num
        email == row.email
        is_survey_respondent == email \in survey_emails
    IN  IF period_num = 12 THEN 1
        ELSE IF 7 <= period_num /\ period_num <= 11 /\ is_survey_respondent
             THEN 2
        ELSE IF 7 <= period_num /\ period_num <= 11 THEN 3
        ELSE 4

\* ----------------------------------------------------------------------
\* [8] Survey matcher: state
\* ----------------------------------------------------------------------
VARIABLES
    df_combined,          \* the customer table: key, email, period_num, responded
    survey_data_dict,     \* period -> survey file
    order,                \* the periods processed so far, in dict order
    period,               \* the period being processed, 0 between sources
    survey_data,          \* the extract of the period being processed
    pc,                   \* position in the pipeline
    name_match_count,     \* per period: records flagged by its name pass
    email_match_count,    \* per period: records flagged by its e-mail pass
    total_name_matches,
    total_email_matches,
    all_survey_emails,
    total_respondents,
    credit,               \* history: per record, the (period, method) pairs that counted it
    priority              \* per record, 0 until the classifier has run

matcher_vars ==
    << df_combined, survey_data_dict, order, period, survey_data, pc,
       name_match_count, email_match_count, total_name_matches,
       total_email_matches, all_survey_emails, total_respondents, credit,
       priority >>

\* state of the single-function checks
VARIABLES
    arg_row, arg_survey_emails, priority_out,                 \* calculate_priority
    norm_input, norm_value, norm_prev, norm_calls, norm_fn,   \* normalizers
    arg_postal_code_str, arg_postal_mapping, prefecture_out, lookup_done,
    geo_df0, geo_df, fill_mapping, completed_count, failed_count, counted,
    fill_done,
    arg_address, arg_current_prefecture, address_out, addr_done

priority_vars == << arg_row, arg_survey_emails, priority_out >>
norm_vars == << norm_input, norm_value, norm_prev, norm_calls, norm_fn >>
postal_vars == << arg_postal_code_str, arg_postal_mapping, prefecture_out, lookup_done >>
fill_vars ==
    << geo_df0, geo_df, fill_mapping, completed_count, failed_count, counted,
       fill_done >>
addr_vars == << arg_address, arg_current_prefecture, address_out, addr_done >>

\* state of the checks of the auditor, the romaji translation, the detail
\* report and the classifier on malformed cohorts
VARIABLES
    dup_addresses, arg_top_n, df_duplicates, duplicate_count, dup_done,
    arg_romaji_address, romaji_out, romaji_done,
    det_df, det_dict, det_order, det_credit, df_details, det_pc,
    arg_raw_row, priority_raised

dup_vars ==
    << dup_addresses, arg_top_n, df_duplicates, duplicate_count, dup_done >>
romaji_vars == << arg_romaji_address, romaji_out, romaji_done >>
detail_vars == << det_df, det_dict, det_order, det_credit, df_details, det_pc >>
raise_vars == << arg_raw_row, priority_raised >>

vars ==
    << matcher_vars, priority_vars, norm_vars, postal_vars, fill_vars,
       addr_vars, dup_vars, romaji_vars, detail_vars, raise_vars >>

Records == 1..NumRecords
Periods == 1..NumSources

\* values of the customer columns: normalized name key and e-mail
CustomerKeys == { <<>>, <<"a">> }
CustomerEmails == { <<>>, <<"a", "@">>, <<"b">> }
PeriodNums == { 6, 9, 12 }

Range(seq) == { seq[i] : i \in 1..Len(seq) }

Responded(df) == { i \in DOMAIN df : df[i].responded }

\* (df['氏名_key'] == name) & (~df['アンケート回答'])
NameMask(df, name) ==
    { i \in DOMAIN df : df[i].key = name /\ ~df[i].responded }

\* the e-mail mask without its second conjunct
EmailMask_any(df, email) ==
    { i \in DOMAIN df : df[i].email = email }

\* (df['Eメール'] == email) & (~df['アンケート回答'])
EmailMask(df, email) ==
    { i \in DOMAIN df : df[i].email = email /\ ~df[i].responded }

\* the flag column replaced by the mask instead of set on the matched rows
SetFlag_overwrite(df, matched_indices) ==
    [ i \in DOMAIN df |-> [df[i] EXCEPT !.responded = (i \in matched_indices)] ]

\* df.loc[matched_indices, 'アンケート回答'] = True
SetFlag(df, matched_indices) ==
    [ i \in DOMAIN df |->
        IF i \in matched_indices THEN [df[i] EXCEPT !.responded = TRUE]
        ELSE df[i] ]

AddCredit(cr, matched_indices, p, method) ==
    [ i \in DOMAIN cr |->
        IF i \in matched_indices THEN Append(cr[i], <<p, method>>) ELSE cr[i] ]

\* for name in survey_names: ...
RECURSIVE NameLoop(_, _, _, _, _)
NameLoop(names, df, count, cr, p) ==
    IF names = {} THEN [df |-> df, count |-> count, credit |-> cr]
    ELSE LET name == CHOOSE n \in names : TRUE
             matched_indices == NameMask(df, name)
         IN  IF Cardinality(matched_indices) > 0
             THEN NameLoop(names \ {name}, SetFlag(df, matched_indices),
                           count + Cardinality(matched_indices),
                           AddCredit(cr, matched_indices, p, "name"), p)
             ELSE NameLoop(names \ {name}, df, count, cr, p)

\* for email in survey_emails: ...
RECURSIVE EmailLoop(_, _, _, _, _)
EmailLoop(emails, df, count, cr, p) ==
    IF emails = {} THEN [df |-> df, count |-> count, credit |-> cr]
    ELSE LET email == CHOOSE e \in emails : TRUE
             matched_indices == EmailMask(df, email)
         IN  IF Cardinality(matched_indices) > 0
             THEN EmailLoop(emails \ {email}, SetFlag(df, matched_indices),
                            count + Cardinality(matched_indices),
                            AddCredit(cr, matched_indices, p, "email"), p)
             ELSE EmailLoop(emails \ {email}, df, count, cr, p)

\* one iteration of the loop over survey_data_dict.items(), as a function
SourceResult(st, dict, p) ==
    LET ex == extract_survey_data(dict[p])
        n == NameLoop(ex.names, st.df, 0, st.credit, p)
        e == EmailLoop(ex.emails, n.df, 0, n.credit, p)
    IN  [ df |-> e.df,
          credit |-> e.credit,
          name_match_count |-> [st.name_match_count EXCEPT ![p] = n.count],
          email_match_count |-> [st.email_match_count EXCEPT ![p] = e.count],
          all_survey_emails |-> st.all_survey_emails \cup ex.emails ]

\* the whole loop, for the sources taken in the order seq
RECURSIVE MergeInOrder(_, _, _)
MergeInOrder(st, dict, seq) ==
    IF seq = <<>> THEN st
    ELSE MergeInOrder(SourceResult(st, dict, Head(seq)), dict, Tail(seq))

\* the state of merge_survey_data_enhanced before its loop
MergeStart(df) ==
    [ df |-> [ i \in DOMAIN df |-> [df[i] EXCEPT !.responded = FALSE] ],
      credit |-> [ i \in DOMAIN df |-> <<>> ],
      name_match_count |-> [ p \in Periods |-> 0 ],
      email_match_count |-> [ p \in Periods |-> 0 ],
      all_survey_emails |-> {} ]

\* ----------------------------------------------------------------------
\* [8] Survey matcher: operations
\* ----------------------------------------------------------------------
MatcherInit ==
    /\ df_combined \in
         [ Records -> [ key : CustomerKeys, email : CustomerEmails,
                        period_num : PeriodNums, responded : {FALSE} ] ]
    /\ survey_data_dict \in [ Periods -> SurveyFiles ]
    /\ order = <<>>
    /\ period = 0
    /\ survey_data = EmptyExtract
    /\ pc = "loop"
    /\ name_match_count = [ p \in Periods |-> 0 ]
    /\ email_match_count = [ p \in Periods |-> 0 ]
    /\ total_name_matches = 0
    /\ total_email_matches = 0
    /\ all_survey_emails = {}
    /\ total_respondents = 0
    /\ credit = [ i \in Records |-> <<>> ]
    /\ priority = [ i \in Records |-> 0 ]

\* the next source of the dict is read and its name pass runs
NamePass(p) ==
    /\ pc = "loop"
    /\ p \in Periods \ Range(order)
    /\ LET ex == extract_survey_data(survey_data_dict[p])
           r == NameLoop(ex.names, df_combined, 0, credit, p)
       IN  /\ survey_data' = ex
           /\ df_combined' = r.df
           /\ credit' = r.credit
           /\ name_match_count' = [name_match_count EXCEPT ![p] = r.count]
    /\ period' = p
    /\ pc' = "emails"
    /\ UNCHANGED << survey_data_dict, order, email_match_count,
                    total_name_matches, total_email_matches,
                    all_survey_emails, total_respondents, priority >>
    /\ UNCHANGED << priority_vars, norm_vars, postal_vars, fill_vars, addr_vars,
                    dup_vars, romaji_vars, detail_vars, raise_vars >>

\* the e-mail pass of the same source, then the totals
EmailPass ==
    /\ pc = "emails"
    /\ LET r == EmailLoop(survey_data.emails, df_combined, 0, credit, period)
       IN  /\ df_combined' = r.df
           /\ credit' = r.credit
           /\ email_match_count' = [email_match_count EXCEPT ![period] = r.count]
           /\ total_email_matches' = total_email_matches + r.count
    /\ all_survey_emails' = all_survey_emails \cup survey_data.emails
    /\ total_name_matches' = total_name_matches + name_match_count[period]
    /\ order' = Append(order, period)
    /\ period' = 0
    /\ survey_data' = EmptyExtract
    /\ pc' = "loop"
    /\ UNCHANGED << survey_data_dict, name_match_count, total_respondents,
                    priority >>
    /\ UNCHANGED << priority_vars, norm_vars, postal_vars, fill_vars, addr_vars,
                    dup_vars, romaji_vars, detail_vars, raise_vars >>

\* after the last source: the respondents are counted and the table returned
Return ==
    /\ pc = "loop"
    /\ Len(order) = NumSources
    /\ total_respondents' = Cardinality(Responded(df_combined))
    /\ pc' = "returned"
    /\ UNCHANGED << df_combined, survey_data_dict, order, period, survey_data,
                    name_match_count, email_match_count, total_name_matches,
                    total_email_matches, all_survey_emails, credit, priority >>
    /\ UNCHANGED << priority_vars, norm_vars, postal_vars, fill_vars, addr_vars,
                    dup_vars, romaji_vars, detail_vars, raise_vars >>

\* the classifier is applied to every row with the returned e-mail set
ApplyPriority ==
    /\ pc = "returned"
    /\ priority' = [ i \in Records |->
                       calculate_priority(df_combined[i], all_survey_emails) ]
    /\ pc' = "ranked"
    /\ UNCHANGED << df_combined, survey_data_dict, order, period, survey_data,
                    name_match_count, email_match_count, total_name_matches,
                    total_email_matches, all_survey_emails, total_respondents,
                    credit >>
    /\ UNCHANGED << priority_vars, norm_vars, postal_vars, fill_vars, addr_vars,
                    dup_vars, romaji_vars, detail_vars, raise_vars >>


\* ----------------------------------------------------------------------
\* [7] Prefecture from postal code
\* ----------------------------------------------------------------------
MaxPostalLen == 4

IsDigit(c) == c \in {"0", "1", "2", "3", "4", "5", "6", "7", "8", "9"}

StartsWith(s, prefix) ==
    Len(prefix) <= Len(s) /\ SubSeq(s, 1, Len(prefix)) = prefix

\* dict.get(key, None)
DictGet(mapping, key) ==
    IF key \in DOMAIN mapping THEN mapping[key] ELSE NA

\* the lookup applied to the raw string, without re.sub(r'\D', '', ...)
get_prefecture_from_postal_code_raw(postal_code_str, postal_mapping) ==
    IF isna(postal_code_str) \/ postal_code_str = <<>> THEN NA
    ELSE IF Len(postal_code_str) < 3 THEN NA
         ELSE DictGet(postal_mapping, SubSeq(postal_code_str, 1, 3))

get_prefecture_from_postal_code(postal_code_str, postal_mapping) ==
    IF isna(postal_code_str) \/ postal_code_str = <<>> THEN NA
    ELSE LET postal_digits == SelectSeq(postal_code_str, IsDigit)
         IN  IF Len(postal_digits) < 3 THEN NA
             ELSE LET prefix_3digit == SubSeq(postal_digits, 1, 3)
                  IN  DictGet(postal_mapping, prefix_3digit)

\* the 47 official prefecture names, in the order of the source list
prefectures ==
    <<
      <<"u5317", "u6D77", "u9053">>,  \* 1 北海道
      <<"u9752", "u68EE", "u770C">>,  \* 2 青森県
      <<"u5CA9", "u624B", "u770C">>,  \* 3 岩手県
      <<"u5BAE", "u57CE", "u770C">>,  \* 4 宮城県
      <<"u79CB", "u7530", "u770C">>,  \* 5 秋田県
      <<"u5C71", "u5F62", "u770C">>,  \* 6 山形県
      <<"u798F", "u5CF6", "u770C">>,  \* 7 福島県
      <<"u8328", "u57CE", "u770C">>,  \* 8 茨城県
      <<"u6803", "u6728", "u770C">>,  \* 9 栃木県
      <<"u7FA4", "u99AC", "u770C">>,  \* 10 群馬県
      <<"u57FC", "u7389", "u770C">>,  \* 11 埼玉県
      <<"u5343", "u8449", "u770C">>,  \* 12 千葉県
      <<"u6771", "u4EAC", "u90FD">>,  \* 13 東京都
      <<"u795E", "u5948", "u5DDD", "u770C">>,  \* 14 神奈川県
      <<"u65B0", "u6F5F", "u770C">>,  \* 15 新潟県
      <<"u5BCC", "u5C71", "u770C">>,  \* 16 富山県
      <<"u77F3", "u5DDD", "u770C">>,  \* 17 石川県
      <<"u798F", "u4E95", "u770C">>,  \* 18 福井県
      <<"u5C71", "u68A8", "u770C">>,  \* 19 山梨県
      <<"u9577", "u91CE", "u770C">>,  \* 20 長野県
      <<"u5C90", "u961C", "u770C">>,  \* 21 岐阜県
      <<"u9759", "u5CA1", "u770C">>,  \* 22 静岡県
      <<"u611B", "u77E5", "u770C">>,  \* 23 愛知県
      <<"u4E09", "u91CD", "u770C">>,  \* 24 三重県
      <<"u6ECB", "u8CC0", "u770C">>,  \* 25 滋賀県
      <<"u4EAC", "u90FD", "u5E9C">>,  \* 26 京都府
      <<"u5927", "u962A", "u5E9C">>,  \* 27 大阪府
      <<"u5175", "u5EAB", "u770C">>,  \* 28 兵庫県
      <<"u5948", "u826F", "u770C">>,  \* 29 奈良県
      <<"u548C", "u6B4C", "u5C71", "u770C">>,  \* 30 和歌山県
      <<"u9CE5", "u53D6", "u770C">>,  \* 31 鳥取県
      <<"u5CF6", "u6839", "u770C">>,  \* 32 島根県
      <<"u5CA1", "u5C71", "u770C">>,  \* 33 岡山県
      <<"u5E83", "u5CF6", "u770C">>,  \* 34 広島県
      <<"u5C71", "u53E3", "u770C">>,  \* 35 山口県
      <<"u5FB3", "u5CF6", "u770C">>,  \* 36 徳島県
      <<"u9999", "u5DDD", "u770C">>,  \* 37 香川県
      <<"u611B", "u5A9B", "u770C">>,  \* 38 愛媛県
      <<"u9AD8", "u77E5", "u770C">>,  \* 39 高知県
      <<"u798F", "u5CA1", "u770C">>,  \* 40 福岡県
      <<"u4F50", "u8CC0", "u770C">>,  \* 41 佐賀県
      <<"u9577", "u5D0E", "u770C">>,  \* 42 長崎県
      <<"u718A", "u672C", "u770C">>,  \* 43 熊本県
      <<"u5927", "u5206", "u770C">>,  \* 44 大分県
      <<"u5BAE", "u5D0E", "u770C">>,  \* 45 宮崎県
      <<"u9E7F", "u5150", "u5CF6", "u770C">>,  \* 46 鹿児島県
      <<"u6C96", "u7E04", "u770C">>  \* 47 沖縄県
    >>

\* municipality -> prefecture, as <<municipality, prefecture>> pairs
\* in the definition order of the dict
CITY_TO_PREFECTURE ==
    <<
      <<<<"u5343", "u4EE3", "u7530", "u533A">>, prefectures[13]>>,  \* 千代田区: 東京都
      <<<<"u4E2D", "u592E", "u533A">>, prefectures[13]>>,  \* 中央区: 東京都
      <<<<"u6E2F", "u533A">>, prefectures[13]>>,  \* 港区: 東京都
      <<<<"u65B0", "u5BBF", "u533A">>, prefectures[13]>>,  \* 新宿区: 東京都
      <<<<"u6587", "u4EAC", "u533A">>, prefectures[13]>>,  \* 文京区: 東京都
      <<<<"u53F0", "u6771", "u533A">>, prefectures[13]>>,  \* 台東区: 東京都
      <<<<"u58A8", "u7530", "u533A">>, prefectures[13]>>,  \* 墨田区: 東京都
      <<<<"u6C5F", "u6771", "u533A">>, prefectures[13]>>,  \* 江東区: 東京都
      <<<<"u54C1", "u5DDD", "u533A">>, prefectures[13]>>,  \* 品川区: 東京都
      <<<<"u76EE", "u9ED2", "u533A">>, prefectures[13]>>,  \* 目黒区: 東京都
      <<<<"u5927", "u7530", "u533A">>, prefectures[13]>>,  \* 大田区: 東京都
      <<<<"u4E16", "u7530", "u8C37", "u533A">>, prefectures[13]>>,  \* 世田谷区: 東京都
      <<<<"u6E0B", "u8C37", "u533A">>, prefectures[13]>>,  \* 渋谷区: 東京都
      <<<<"u4E2D", "u91CE", "u533A">>, prefectures[13]>>,  \* 中野区: 東京都
      <<<<"u6749", "u4E26", "u533A">>, prefectures[13]>>,  \* 杉並区: 東京都
      <<<<"u8C4A", "u5CF6", "u533A">>, prefectures[13]>>,  \* 豊島区: 東京都
      <<<<"u5317", "u533A">>, prefectures[13]>>,  \* 北区: 東京都
      <<<<"u8352", "u5DDD", "u533A">>, prefectures[13]>>,  \* 荒川区: 東京都
      <<<<"u677F", "u6A4B", "u533A">>, prefectures[13]>>,  \* 板橋区: 東京都
      <<<<"u7DF4", "u99AC", "u533A">>, prefectures[13]>>,  \* 練馬区: 東京都
      <<<<"u8DB3", "u7ACB", "u533A">>, prefectures[13]>>,  \* 足立区: 東京都
      <<<<"u845B", "u98FE", "u533A">>, prefectures[13]>>,  \* 葛飾区: 東京都
      <<<<"u6C5F", "u6238", "u5DDD", "u533A">>, prefectures[13]>>,  \* 江戸川区: 東京都
      <<<<"u516B", "u738B", "u5B50", "u5E02">>, prefectures[13]>>,  \* 八王子市: 東京都
      <<<<"u7ACB", "u5DDD", "u5E02">>, prefectures[13]>>,  \* 立川市: 東京都
      <<<<"u6B66", "u8535", "u91CE", "u5E02">>, prefectures[13]>>,  \* 武蔵野市: 東京都
      <<<<"u4E09", "u9DF9", "u5E02">>, prefectures[13]>>,  \* 三鷹市: 東京都
      <<<<"u9752", "u6885", "u5E02">>, prefectures[13]>>,  \* 青梅市: 東京都
      <<<<"u5E9C", "u4E2D", "u5E02">>, prefectures[13]>>,  \* 府中市: 東京都
      <<<<"u662D", "u5CF6", "u5E02">>, prefectures[13]>>,  \* 昭島市: 東京都
      <<<<"u8ABF", "u5E03", "u5E02">>, prefectures[13]>>,  \* 調布市: 東京都
      <<<<"u753A", "u7530", "u5E02">>, prefectures[13]>>,  \* 町田市: 東京都
      <<<<"u5C0F", "u91D1", "u4E95", "u5E02">>, prefectures[13]>>,  \* 小金井市: 東京都
      <<<<"u5C0F", "u5E73", "u5E02">>, prefectures[13]>>,  \* 小平市: 東京都
      <<<<"u65E5", "u91CE", "u5E02">>, prefectures[13]>>,  \* 日野市: 東京都
      <<<<"u6771", "u6751", "u5C71", "u5E02">>, prefectures[13]>>,  \* 東村山市: 東京都
      <<<<"u56FD", "u5206", "u5BFA", "u5E02">>, prefectures[13]>>,  \* 国分寺市: 東京都
      <<<<"u56FD", "u7ACB", "u5E02">>, prefectures[13]>>,  \* 国立市: 東京都
      <<<<"u798F", "u751F", "u5E02">>, prefectures[13]>>,  \* 福生市: 東京都
      <<<<"u72DB", "u6C5F", "u5E02">>, prefectures[13]>>,  \* 狛江市: 東京都
      <<<<"u6771", "u5927", "u548C", "u5E02">>, prefectures[13]>>,  \* 東大和市: 東京都
      <<<<"u6E05", "u702C", "u5E02">>, prefectures[13]>>,  \* 清瀬市: 東京都
      <<<<"u6771", "u4E45", "u7559", "u7C73", "u5E02">>, prefectures[13]>>,  \* 東久留米市: 東京都
      <<<<"u6B66", "u8535", "u6751", "u5C71", "u5E02">>, prefectures[13]>>,  \* 武蔵村山市: 東京都
      <<<<"u591A", "u6469", "u5E02">>, prefectures[13]>>,  \* 多摩市: 東京都
      <<<<"u7A32", "u57CE", "u5E02">>, prefectures[13]>>,  \* 稲城市: 東京都
      <<<<"u7FBD", "u6751", "u5E02">>, prefectures[13]>>,  \* 羽村市: 東京都
      <<<<"u3042", "u304D", "u308B", "u91CE", "u5E02">>, prefectures[13]>>,  \* あきる野市: 東京都
      <<<<"u897F", "u6771", "u4EAC", "u5E02">>, prefectures[13]>>,  \* 西東京市: 東京都
      <<<<"u6A2A", "u6D5C", "u5E02">>, prefectures[14]>>,  \* 横浜市: 神奈川県
      <<<<"u5DDD", "u5D0E", "u5E02">>, prefectures[14]>>,  \* 川崎市: 神奈川県
      <<<<"u76F8", "u6A21", "u539F", "u5E02">>, prefectures[14]>>,  \* 相模原市: 神奈川県
      <<<<"u6A2A", "u9808", "u8CC0", "u5E02">>, prefectures[14]>>,  \* 横須賀市: 神奈川県
      <<<<"u5E73", "u585A", "u5E02">>, prefectures[14]>>,  \* 平塚市: 神奈川県
      <<<<"u938C", "u5009", "u5E02">>, prefectures[14]>>,  \* 鎌倉市: 神奈川県
      <<<<"u85E4", "u6CA2", "u5E02">>, prefectures[14]>>,  \* 藤沢市: 神奈川県
      <<<<"u5C0F", "u7530", "u539F", "u5E02">>, prefectures[14]>>,  \* 小田原市: 神奈川県
      <<<<"u8305", "u30F6", "u5D0E", "u5E02">>, prefectures[14]>>,  \* 茅ヶ崎市: 神奈川県
      <<<<"u9017", "u5B50", "u5E02">>, prefectures[14]>>,  \* 逗子市: 神奈川県
      <<<<"u4E09", "u6D66", "u5E02">>, prefectures[14]>>,  \* 三浦市: 神奈川県
      <<<<"u79E6", "u91CE", "u5E02">>, prefectures[14]>>,  \* 秦野市: 神奈川県
      <<<<"u539A", "u6728", "u5E02">>, prefectures[14]>>,  \* 厚木市: 神奈川県
      <<<<"u5927", "u548C", "u5E02">>, prefectures[14]>>,  \* 大和市: 神奈川県
      <<<<"u4F0A", "u52E2", "u539F", "u5E02">>, prefectures[14]>>,  \* 伊勢原市: 神奈川県
      <<<<"u6D77", "u8001", "u540D", "u5E02">>, prefectures[14]>>,  \* 海老名市: 神奈川県
      <<<<"u5EA7", "u9593", "u5E02">>, prefectures[14]>>,  \* 座間市: 神奈川県
      <<<<"u5357", "u8DB3", "u67C4", "u5E02">>, prefectures[14]>>,  \* 南足柄市: 神奈川県
      <<<<"u7DBE", "u702C", "u5E02">>, prefectures[14]>>,  \* 綾瀬市: 神奈川県
      <<<<"u3055", "u3044", "u305F", "u307E", "u5E02">>, prefectures[11]>>,  \* さいたま市: 埼玉県
      <<<<"u5DDD", "u8D8A", "u5E02">>, prefectures[11]>>,  \* 川越市: 埼玉県
      <<<<"u718A", "u8C37", "u5E02">>, prefectures[11]>>,  \* 熊谷市: 埼玉県
      <<<<"u5DDD", "u53E3", "u5E02">>, prefectures[11]>>,  \* 川口市: 埼玉県
      <<<<"u884C", "u7530", "u5E02">>, prefectures[11]>>,  \* 行田市: 埼玉県
      <<<<"u79E9", "u7236", "u5E02">>, prefectures[11]>>,  \* 秩父市: 埼玉県
      <<<<"u6240", "u6CA2", "u5E02">>, prefectures[11]>>,  \* 所沢市: 埼玉県
      <<<<"u98EF", "u80FD", "u5E02">>, prefectures[11]>>,  \* 飯能市: 埼玉県
      <<<<"u52A0", "u9808", "u5E02">>, prefectures[11]>>,  \* 加須市: 埼玉県
      <<<<"u672C", "u5E84", "u5E02">>, prefectures[11]>>,  \* 本庄市: 埼玉県
      <<<<"u6771", "u677E", "u5C71", "u5E02">>, prefectures[11]>>,  \* 東松山市: 埼玉県
      <<<<"u6625", "u65E5", "u90E8", "u5E02">>, prefectures[11]>>,  \* 春日部市: 埼玉県
      <<<<"u72ED", "u5C71", "u5E02">>, prefectures[11]>>,  \* 狭山市: 埼玉県
      <<<<"u7FBD", "u751F", "u5E02">>, prefectures[11]>>,  \* 羽生市: 埼玉県
      <<<<"u9D3B", "u5DE3", "u5E02">>, prefectures[11]>>,  \* 鴻巣市: 埼玉県
      <<<<"u6DF1", "u8C37", "u5E02">>, prefectures[11]>>,  \* 深谷市: 埼玉県
      <<<<"u4E0A", "u5C3E", "u5E02">>, prefectures[11]>>,  \* 上尾市: 埼玉県
      <<<<"u8349", "u52A0", "u5E02">>, prefectures[11]>>,  \* 草加市: 埼玉県
      <<<<"u8D8A", "u8C37", "u5E02">>, prefectures[11]>>,  \* 越谷市: 埼玉県
      <<<<"u8568", "u5E02">>, prefectures[11]>>,  \* 蕨市: 埼玉県
      <<<<"u6238", "u7530", "u5E02">>, prefectures[11]>>,  \* 戸田市: 埼玉県
      <<<<"u5165", "u9593", "u5E02">>, prefectures[11]>>,  \* 入間市: 埼玉県
      <<<<"u671D", "u971E", "u5E02">>, prefectures[11]>>,  \* 朝霞市: 埼玉県
      <<<<"u5FD7", "u6728", "u5E02">>, prefectures[11]>>,  \* 志木市: 埼玉県
      <<<<"u548C", "u5149", "u5E02">>, prefectures[11]>>,  \* 和光市: 埼玉県
      <<<<"u65B0", "u5EA7", "u5E02">>, prefectures[11]>>,  \* 新座市: 埼玉県
      <<<<"u6876", "u5DDD", "u5E02">>, prefectures[11]>>,  \* 桶川市: 埼玉県
      <<<<"u4E45", "u559C", "u5E02">>, prefectures[11]>>,  \* 久喜市: 埼玉県
      <<<<"u5317", "u672C", "u5E02">>, prefectures[11]>>,  \* 北本市: 埼玉県
      <<<<"u516B", "u6F6E", "u5E02">>, prefectures[11]>>,  \* 八潮市: 埼玉県
      <<<<"u5BCC", "u58EB", "u898B", "u5E02">>, prefectures[11]>>,  \* 富士見市: 埼玉県
      <<<<"u4E09", "u90F7", "u5E02">>, prefectures[11]>>,  \* 三郷市: 埼玉県
      <<<<"u84EE", "u7530", "u5E02">>, prefectures[11]>>,  \* 蓮田市: 埼玉県
      <<<<"u5742", "u6238", "u5E02">>, prefectures[11]>>,  \* 坂戸市: 埼玉県
      <<<<"u5E78", "u624B", "u5E02">>, prefectures[11]>>,  \* 幸手市: 埼玉県
      <<<<"u9DB4", "u30F6", "u5CF6", "u5E02">>, prefectures[11]>>,  \* 鶴ヶ島市: 埼玉県
      <<<<"u65E5", "u9AD8", "u5E02">>, prefectures[11]>>,  \* 日高市: 埼玉県
      <<<<"u5409", "u5DDD", "u5E02">>, prefectures[11]>>,  \* 吉川市: 埼玉県
      <<<<"u3075", "u3058", "u307F", "u91CE", "u5E02">>, prefectures[11]>>,  \* ふじみ野市: 埼玉県
      <<<<"u767D", "u5CA1", "u5E02">>, prefectures[11]>>,  \* 白岡市: 埼玉県
      <<<<"u5343", "u8449", "u5E02">>, prefectures[12]>>,  \* 千葉市: 千葉県
      <<<<"u929A", "u5B50", "u5E02">>, prefectures[12]>>,  \* 銚子市: 千葉県
      <<<<"u5E02", "u5DDD", "u5E02">>, prefectures[12]>>,  \* 市川市: 千葉県
      <<<<"u8239", "u6A4B", "u5E02">>, prefectures[12]>>,  \* 船橋市: 千葉県
      <<<<"u9928", "u5C71", "u5E02">>, prefectures[12]>>,  \* 館山市: 千葉県
      <<<<"u6728", "u66F4", "u6D25", "u5E02">>, prefectures[12]>>,  \* 木更津市: 千葉県
      <<<<"u677E", "u6238", "u5E02">>, prefectures[12]>>,  \* 松戸市: 千葉県
      <<<<"u91CE", "u7530", "u5E02">>, prefectures[12]>>,  \* 野田市: 千葉県
      <<<<"u8302", "u539F", "u5E02">>, prefectures[12]>>,  \* 茂原市: 千葉県
      <<<<"u6210", "u7530", "u5E02">>, prefectures[12]>>,  \* 成田市: 千葉県
      <<<<"u4F50", "u5009", "u5E02">>, prefectures[12]>>,  \* 佐倉市: 千葉県
      <<<<"u6771", "u91D1", "u5E02">>, prefectures[12]>>,  \* 東金市: 千葉県
      <<<<"u65ED", "u5E02">>, prefectures[12]>>,  \* 旭市: 千葉県
      <<<<"u7FD2", "u5FD7", "u91CE", "u5E02">>, prefectures[12]>>,  \* 習志野市: 千葉県
      <<<<"u67CF", "u5E02">>, prefectures[12]>>,  \* 柏市: 千葉県
      <<<<"u52DD", "u6D66", "u5E02">>, prefectures[12]>>,  \* 勝浦市: 千葉県
      <<<<"u5E02", "u539F", "u5E02">>, prefectures[12]>>,  \* 市原市: 千葉県
      <<<<"u6D41", "u5C71", "u5E02">>, prefectures[12]>>,  \* 流山市: 千葉県
      <<<<"u516B", "u5343", "u4EE3", "u5E02">>, prefectures[12]>>,  \* 八千代市: 千葉県
      <<<<"u6211", "u5B6B", "u5B50", "u5E02">>, prefectures[12]>>,  \* 我孫子市: 千葉県
      <<<<"u9D28", "u5DDD", "u5E02">>, prefectures[12]>>,  \* 鴨川市: 千葉県
      <<<<"u938C", "u30B1", "u8C37", "u5E02">>, prefectures[12]>>,  \* 鎌ケ谷市: 千葉県
      <<<<"u541B", "u6D25", "u5E02">>, prefectures[12]>>,  \* 君津市: 千葉県
      <<<<"u5BCC", "u6D25", "u5E02">>, prefectures[12]>>,  \* 富津市: 千葉県
      <<<<"u6D66", "u5B89", "u5E02">>, prefectures[12]>>,  \* 浦安市: 千葉県
      <<<<"u56DB", "u8857", "u9053", "u5E02">>, prefectures[12]>>,  \* 四街道市: 千葉県
      <<<<"u8896", "u30B1", "u6D66", "u5E02">>, prefectures[12]>>,  \* 袖ケ浦市: 千葉県
      <<<<"u516B", "u8857", "u5E02">>, prefectures[12]>>,  \* 八街市: 千葉県
      <<<<"u5370", "u897F", "u5E02">>, prefectures[12]>>,  \* 印西市: 千葉県
      <<<<"u767D", "u4E95", "u5E02">>, prefectures[12]>>,  \* 白井市: 千葉県
      <<<<"u5BCC", "u91CC", "u5E02">>, prefectures[12]>>,  \* 富里市: 千葉県
      <<<<"u5357", "u623F", "u7DCF", "u5E02">>, prefectures[12]>>,  \* 南房総市: 千葉県
      <<<<"u531D", "u7473", "u5E02">>, prefectures[12]>>,  \* 匝瑳市: 千葉県
      <<<<"u9999", "u53D6", "u5E02">>, prefectures[12]>>,  \* 香取市: 千葉県
      <<<<"u5C71", "u6B66", "u5E02">>, prefectures[12]>>,  \* 山武市: 千葉県
      <<<<"u3044", "u3059", "u307F", "u5E02">>, prefectures[12]>>,  \* いすみ市: 千葉県
      <<<<"u5927", "u7DB2", "u767D", "u91CC", "u5E02">>, prefectures[12]>>,  \* 大網白里市: 千葉県
      <<<<"u672D", "u5E4C", "u5E02">>, prefectures[1]>>,  \* 札幌市: 北海道
      <<<<"u4ED9", "u53F0", "u5E02">>, prefectures[4]>>,  \* 仙台市: 宮城県
      <<<<"u65B0", "u6F5F", "u5E02">>, prefectures[15]>>,  \* 新潟市: 新潟県
      <<<<"u9759", "u5CA1", "u5E02">>, prefectures[22]>>,  \* 静岡市: 静岡県
      <<<<"u6D5C", "u677E", "u5E02">>, prefectures[22]>>,  \* 浜松市: 静岡県
      <<<<"u540D", "u53E4", "u5C4B", "u5E02">>, prefectures[23]>>,  \* 名古屋市: 愛知県
      <<<<"u4EAC", "u90FD", "u5E02">>, prefectures[26]>>,  \* 京都市: 京都府
      <<<<"u5927", "u962A", "u5E02">>, prefectures[27]>>,  \* 大阪市: 大阪府
      <<<<"u583A", "u5E02">>, prefectures[27]>>,  \* 堺市: 大阪府
      <<<<"u795E", "u6238", "u5E02">>, prefectures[28]>>,  \* 神戸市: 兵庫県
      <<<<"u5CA1", "u5C71", "u5E02">>, prefectures[33]>>,  \* 岡山市: 岡山県
      <<<<"u5E83", "u5CF6", "u5E02">>, prefectures[34]>>,  \* 広島市: 広島県
      <<<<"u5317", "u4E5D", "u5DDE", "u5E02">>, prefectures[40]>>,  \* 北九州市: 福岡県
      <<<<"u798F", "u5CA1", "u5E02">>, prefectures[40]>>,  \* 福岡市: 福岡県
      <<<<"u718A", "u672C", "u5E02">>, prefectures[43]>>  \* 熊本市: 熊本県
    >>

TokyoTo == prefectures[13]
OsakaFu == prefectures[27]

\* postal codes and postal maps of the model
PostalChars == {"0", "1", "-"}

PostalStrings == UNION { [1..k -> PostalChars] : k \in 0..MaxPostalLen }

PostalPrefixes == { <<"1", "0", "0">>, <<"1", "0", "1">> }

PostalMaps ==
    UNION { [D -> {TokyoTo, OsakaFu}] : D \in SUBSET PostalPrefixes }

\* df[postal_code_col].notna() alone
NeedsCompletion_postal_only(df) ==
    { i \in DOMAIN df : ~isna(df[i].postal_code) }

\* mask_needs_completion
NeedsCompletion(df) ==
    { i \in DOMAIN df : ~isna(df[i].postal_code) /\ isna(df[i].prefecture) }

\* Python truthiness of the value get_prefecture_from_postal_code returns
Truthy(x) == ~isna(x) /\ x # <<>>

\* the body of the loop with the else branch left out
FillRow_no_else(st, idx, mapping) ==
    LET postal_code == st.df[idx].postal_code
        prefecture == get_prefecture_from_postal_code(postal_code, mapping)
    IN  IF Truthy(prefecture)
        THEN [ df |-> [st.df EXCEPT ![idx].prefecture = prefecture],
               completed_count |-> st.completed_count + 1,
               failed_count |-> st.failed_count,
               counted |-> Append(st.counted, idx) ]
        ELSE st

\* the body of: for idx in df[mask_needs_completion].index
FillRow(st, idx, mapping) ==
    LET postal_code == st.df[idx].postal_code
        prefecture == get_prefecture_from_postal_code(postal_code, mapping)
    IN  IF Truthy(prefecture)
        THEN [ df |-> [st.df EXCEPT ![idx].prefecture = prefecture],
               completed_count |-> st.completed_count + 1,
               failed_count |-> st.failed_count,
               counted |-> Append(st.counted, idx) ]
        ELSE [ df |-> st.df,
               completed_count |-> st.completed_count,
               failed_count |-> st.failed_count + 1,
               counted |-> Append(st.counted, idx) ]

\* the loop, over the masked rows in index order starting at idx
RECURSIVE FillLoop(_, _, _, _)
FillLoop(st, idx, mask, mapping) ==
    IF idx > Len(st.df) THEN st
    ELSE IF idx \in mask
         THEN FillLoop(FillRow(st, idx, mapping), idx + 1, mask, mapping)
         ELSE FillLoop(st, idx + 1, mask, mapping)

fill_prefecture_from_postal_code(df, mapping) ==
    LET mask_needs_completion == NeedsCompletion(df)
    IN  FillLoop([ df |-> df, completed_count |-> 0, failed_count |-> 0,
                   counted |-> <<>> ],
                 1, mask_needs_completion, mapping)

\* ----------------------------------------------------------------------
\* [10] Address standardization
\* ----------------------------------------------------------------------
MaxAddrLen == 4

StartsWithPrefecture(address) ==
    \E i \in 1..Len(prefectures) : StartsWith(address, prefectures[i])

\* the first municipality of the table, in definition order, that is a
\* prefix of the address; 0 when there is none
FirstCity(address) ==
    LET hits == { i \in 1..Len(CITY_TO_PREFECTURE) :
                    StartsWith(address, CITY_TO_PREFECTURE[i][1]) }
    IN  IF hits = {} THEN 0
        ELSE CHOOSE i \in hits : \A j \in hits : i <= j

\* the function without its first loop (the prefecture-prefix check)
standardize_address_no_prefix_check(address, current_prefecture) ==
    IF isna(address) \/ address = <<>> THEN address
    ELSE LET a == strip(address)
             c == FirstCity(a)
         IN  IF c # 0 THEN CITY_TO_PREFECTURE[c][2] \o a
             ELSE IF Truthy(current_prefecture) THEN current_prefecture \o a
             ELSE a

\* the function with current_prefecture consulted before the municipality table
standardize_address_known_first(address, current_prefecture) ==
    IF isna(address) \/ address = <<>> THEN address
    ELSE LET a == strip(address)
             c == FirstCity(a)
         IN  IF StartsWithPrefecture(a) THEN a
             ELSE IF Truthy(current_prefecture) THEN current_prefecture \o a
             ELSE IF c # 0 THEN CITY_TO_PREFECTURE[c][2] \o a
             ELSE a

standardize_address_with_prefecture(address, current_prefecture) ==
    IF isna(address) \/ address = <<>> THEN address
    ELSE LET a == strip(address)
             c == FirstCity(a)
         IN  IF StartsWithPrefecture(a) THEN a
             ELSE IF c # 0 THEN CITY_TO_PREFECTURE[c][2] \o a
             ELSE IF Truthy(current_prefecture) THEN current_prefecture \o a
             ELSE a


\* ----------------------------------------------------------------------
\* Values of the variables of a component that a run does not exercise
\* ----------------------------------------------------------------------
MatcherIdle ==
    /\ df_combined = <<>>
    /\ survey_data_dict = <<>>
    /\ order = <<>>
    /\ period = 0
    /\ survey_data = EmptyExtract
    /\ pc = "idle"
    /\ name_match_count = <<>>
    /\ email_match_count = <<>>
    /\ total_name_matches = 0
    /\ total_email_matches = 0
    /\ all_survey_emails = {}
    /\ total_respondents = 0
    /\ credit = <<>>
    /\ priority = <<>>

PriorityIdle ==
    /\ arg_row = [period_num |-> 0, email |-> <<>>]
    /\ arg_survey_emails = {}
    /\ priority_out = 0

NormIdle ==
    /\ norm_input = NA
    /\ norm_value = NA
    /\ norm_prev = NA
    /\ norm_calls = 0
    /\ norm_fn = "idle"

PostalIdle ==
    /\ arg_postal_code_str = NA
    /\ arg_postal_mapping = <<>>
    /\ prefecture_out = NA
    /\ lookup_done = FALSE

FillIdle ==
    /\ geo_df0 = <<>>
    /\ geo_df = <<>>
    /\ fill_mapping = <<>>
    /\ completed_count = 0
    /\ failed_count = 0
    /\ counted = <<>>
    /\ fill_done = FALSE

AddrIdle ==
    /\ arg_address = NA
    /\ arg_current_prefecture = NA
    /\ address_out = NA
    /\ addr_done = FALSE

DupIdle ==
    /\ dup_addresses = <<>>
    /\ arg_top_n = 0
    /\ df_duplicates = <<>>
    /\ duplicate_count = 0
    /\ dup_done = FALSE

RomajiIdle ==
    /\ arg_romaji_address = NA
    /\ romaji_out = NA
    /\ romaji_done = FALSE

DetailIdle ==
    /\ det_df = <<>>
    /\ det_dict = <<>>
    /\ det_order = <<>>
    /\ det_credit = <<>>
    /\ df_details = <<>>
    /\ det_pc = "idle"

RaiseIdle ==
    /\ arg_raw_row = [period_num |-> [kind |-> "int", value |-> 0], email |-> <<>>]
    /\ priority_raised = FALSE

\* ----------------------------------------------------------------------
\* The matching pipeline: merge_survey_data_enhanced, then the classifier
\* ----------------------------------------------------------------------
Init ==
    /\ MatcherInit
    /\ PriorityIdle /\ NormIdle /\ PostalIdle /\ FillIdle /\ AddrIdle
    /\ DupIdle /\ RomajiIdle /\ DetailIdle /\ RaiseIdle

Next ==
    \/ \E p \in Periods : NamePass(p)
    \/ EmailPass
    \/ Return
    \/ ApplyPriority

Spec == Init /\ [][Next]_vars

\* ----------------------------------------------------------------------
\* calculate_priority on its own
\* ----------------------------------------------------------------------
PeriodSpan == 3

PeriodRange == (0 - PeriodSpan)..(12 + PeriodSpan)

SurveyEmailValues == { <<"a", "@">>, <<"c", "@">> }

PriorityInit ==
    /\ arg_row \in [ period_num : PeriodRange, email : CustomerEmails ]
    /\ arg_survey_emails \in SUBSET SurveyEmailValues
    /\ priority_out = 0
    /\ MatcherIdle /\ NormIdle /\ PostalIdle /\ FillIdle /\ AddrIdle
    /\ DupIdle /\ RomajiIdle /\ DetailIdle /\ RaiseIdle

CallCalculatePriority ==
    /\ priority_out = 0
    /\ priority_out' = calculate_priority(arg_row, arg_survey_emails)
    /\ UNCHANGED << arg_row, arg_survey_emails >>
    /\ UNCHANGED << matcher_vars, norm_vars, postal_vars, fill_vars, addr_vars,
                    dup_vars, romaji_vars, detail_vars, raise_vars >>

PriorityNext == CallCalculatePriority

SpecPriority == PriorityInit /\ [][PriorityNext]_vars

\* ----------------------------------------------------------------------
\* The normalizers on their own, applied up to MaxCalls times in a row
\* ----------------------------------------------------------------------
MaxStrLen == 3
MaxCalls == 2

NormChars == {" ", "u3000", "_", "-", "u30FB", "A", "a", "@"}

NormInputs == {NA} \cup UNION { [1..k -> NormChars] : k \in 0..MaxStrLen }

NormInit ==
    /\ norm_input \in NormInputs
    /\ norm_value = norm_input
    /\ norm_prev = norm_input
    /\ norm_calls = 0
    /\ norm_fn = "none"
    /\ MatcherIdle /\ PriorityIdle /\ PostalIdle /\ FillIdle /\ AddrIdle
    /\ DupIdle /\ RomajiIdle /\ DetailIdle /\ RaiseIdle

CallNormalizeName ==
    /\ norm_fn \in {"none", "name"}
    /\ norm_calls < MaxCalls
    /\ norm_prev' = norm_value
    /\ norm_value' = normalize_name(norm_value)
    /\ norm_calls' = norm_calls + 1
    /\ norm_fn' = "name"
    /\ UNCHANGED norm_input
    /\ UNCHANGED << matcher_vars, priority_vars, postal_vars, fill_vars, addr_vars,
                    dup_vars, romaji_vars, detail_vars, raise_vars >>

CallNormalizeEmail ==
    /\ norm_fn \in {"none", "email"}
    /\ norm_calls < MaxCalls
    /\ norm_prev' = norm_value
    /\ norm_value' = normalize_email(norm_value)
    /\ norm_calls' = norm_calls + 1
    /\ norm_fn' = "email"
    /\ UNCHANGED norm_input
    /\ UNCHANGED << matcher_vars, priority_vars, postal_vars, fill_vars, addr_vars,
                    dup_vars, romaji_vars, detail_vars, raise_vars >>

NormNext == CallNormalizeName \/ CallNormalizeEmail

SpecNormalize == NormInit /\ [][NormNext]_vars

\* ----------------------------------------------------------------------
\* get_prefecture_from_postal_code on its own
\* ----------------------------------------------------------------------
PostalInit ==
    /\ arg_postal_code_str \in {NA} \cup PostalStrings
    /\ arg_postal_mapping \in PostalMaps
    /\ prefecture_out = NA
    /\ lookup_done = FALSE
    /\ MatcherIdle /\ PriorityIdle /\ NormIdle /\ FillIdle /\ AddrIdle
    /\ DupIdle /\ RomajiIdle /\ DetailIdle /\ RaiseIdle

CallGetPrefecture ==
    /\ ~lookup_done
    /\ prefecture_out' = get_prefecture_from_postal_code(arg_postal_code_str, arg_postal_mapping)
    /\ lookup_done' = TRUE
    /\ UNCHANGED << arg_postal_code_str, arg_postal_mapping >>
    /\ UNCHANGED << matcher_vars, priority_vars, norm_vars, fill_vars, addr_vars,
                    dup_vars, romaji_vars, detail_vars, raise_vars >>

PostalNext == CallGetPrefecture

SpecPostal == PostalInit /\ [][PostalNext]_vars

\* ----------------------------------------------------------------------
\* fill_prefecture_from_postal_code
\* ----------------------------------------------------------------------
NumGeoRecords == 2

GeoRecords == 1..NumGeoRecords

\* values of the postal-code column and of the prefecture column
GeoPostalCodes ==
    { NA, <<>>, <<"1", "0", "0">>, <<"1", "-", "0", "1">>, <<"1", "0">> }

GeoPrefectures == { NA, TokyoTo, OsakaFu }

FillInit ==
    /\ geo_df0 \in [ GeoRecords -> [ postal_code : GeoPostalCodes,
                                     prefecture : GeoPrefectures ] ]
    /\ geo_df = geo_df0
    /\ fill_mapping \in PostalMaps
    /\ completed_count = 0
    /\ failed_count = 0
    /\ counted = <<>>
    /\ fill_done = FALSE
    /\ MatcherIdle /\ PriorityIdle /\ NormIdle /\ PostalIdle /\ AddrIdle
    /\ DupIdle /\ RomajiIdle /\ DetailIdle /\ RaiseIdle

CallFillPrefecture ==
    /\ ~fill_done
    /\ LET r == fill_prefecture_from_postal_code(geo_df, fill_mapping)
       IN  /\ geo_df' = r.df
           /\ completed_count' = r.completed_count
           /\ failed_count' = r.failed_count
           /\ counted' = r.counted
    /\ fill_done' = TRUE
    /\ UNCHANGED << geo_df0, fill_mapping >>
    /\ UNCHANGED << matcher_vars, priority_vars, norm_vars, postal_vars, addr_vars,
                    dup_vars, romaji_vars, detail_vars, raise_vars >>

FillNext == CallFillPrefecture

SpecFill == FillInit /\ [][FillNext]_vars

\* ----------------------------------------------------------------------
\* standardize_address_with_prefecture on its own
\* ----------------------------------------------------------------------
\* the characters of 東京都 and 港区, and the space
AddrChars == {"u6771", "u4EAC", "u90FD", "u6E2F", "u533A", " "}

AddrInputs == {NA} \cup UNION { [1..k -> AddrChars] : k \in 0..MaxAddrLen }

KnownPrefectures == { NA, <<>>, OsakaFu }

AddrInit ==
    /\ arg_address \in AddrInputs
    /\ arg_current_prefecture \in KnownPrefectures
    /\ address_out = NA
    /\ addr_done = FALSE
    /\ MatcherIdle /\ PriorityIdle /\ NormIdle /\ PostalIdle /\ FillIdle
    /\ DupIdle /\ RomajiIdle /\ DetailIdle /\ RaiseIdle

CallStandardizeAddress ==
    /\ ~addr_done
    /\ address_out' = standardize_address_with_prefecture(arg_address, arg_current_prefecture)
    /\ addr_done' = TRUE
    /\ UNCHANGED << arg_address, arg_current_prefecture >>
    /\ UNCHANGED << matcher_vars, priority_vars, norm_vars, postal_vars, fill_vars,
                    dup_vars, romaji_vars, detail_vars, raise_vars >>

AddrNext == CallStandardizeAddress

SpecAddress == AddrInit /\ [][AddrNext]_vars


\* ======================================================================
\* Properties
\* ======================================================================
RECURSIVE SumOver(_, _)
SumOver(f, S) ==
    IF S = {} THEN 0
    ELSE LET x == CHOOSE y \in S : TRUE IN f[x] + SumOver(f, S \ {x})

Flags(df) == [ i \in DOMAIN df |-> df[i].responded ]

\* every order in which the sources of the dict can be listed
SourceOrders ==
    { seq \in [ 1..NumSources -> Periods ] :
        \A i, j \in 1..NumSources : seq[i] = seq[j] => i = j }

Names(p) == extract_survey_data(survey_data_dict[p]).names
Emails(p) == extract_survey_data(survey_data_dict[p]).emails

\* C1: a customer record is counted in at most one tally (one source, one
\* pass), and only when it is flagged, so the name-match counts plus the
\* e-mail-match counts of all sources equal the number of records whose
\* responded flag is true; the totals agree with that at the end; and a
\* record matched by the names of the first source is credited to that
\* source's name tally and to no e-mail tally of a later source.
C1_CountedOnce ==
    /\ \A i \in DOMAIN credit :
         /\ Len(credit[i]) <= 1
         /\ (Len(credit[i]) = 1) <=> df_combined[i].responded
    /\ SumOver(name_match_count, DOMAIN name_match_count)
         + SumOver(email_match_count, DOMAIN email_match_count)
       = Cardinality(Responded(df_combined))
    /\ pc \in {"returned", "ranked"} =>
         total_name_matches + total_email_matches = total_respondents
    /\ pc \in {"returned", "ranked"} =>
         \A i \in DOMAIN df_combined :
           df_combined[i].key \in Names(order[1]) =>
             credit[i] = << <<order[1], "name">> >>

C1_Witness ==
    /\ pc = "returned"
    /\ \E i \in DOMAIN df_combined :
         /\ df_combined[i].key \in Names(order[1])
         /\ df_combined[i].email \in Emails(order[2])
         /\ credit[i] = << <<order[1], "name">> >>
         /\ name_match_count[order[1]] = 1
         /\ email_match_count[order[2]] = 0
         /\ total_respondents = 1

\* C2: whatever the order in which the sources are processed, the final
\* responded flag of every record is the same: the flags the run ends with
\* are the flags of the loop run over the same table in every other order.
C2_OrderIndependentFlags ==
    pc = "returned" =>
      \A seq \in SourceOrders :
        Flags(MergeInOrder(MergeStart(df_combined), survey_data_dict, seq).df)
          = Flags(df_combined)

C2_Witness ==
    /\ pc = "returned"
    /\ Responded(df_combined) # {}
    /\ \E seq \in SourceOrders :
         /\ seq # order
         /\ MergeInOrder(MergeStart(df_combined), survey_data_dict, seq).name_match_count
              # name_match_count

\* C3: once the classifier has run on the matcher's output, a record of
\* cohort 7..11 has priority 2 exactly when its responded flag is true and
\* priority 3 exactly when it is false.
C3_PriorityFollowsFlag ==
    pc = "ranked" =>
      \A i \in DOMAIN df_combined :
        df_combined[i].period_num \in 7..11 =>
          /\ (priority[i] = 2) <=> df_combined[i].responded
          /\ (priority[i] = 3) <=> ~df_combined[i].responded

\* C4: calculate_priority returns a value in 1..4; 1 whenever the cohort is
\* 12 and 4 whenever the cohort is outside 7..12, whatever the response
\* status.
C4_PriorityTable ==
    priority_out # 0 =>
      /\ priority_out \in 1..4
      /\ arg_row.period_num = 12 => priority_out = 1
      /\ arg_row.period_num \notin 7..12 => priority_out = 4

C4_Witness ==
    /\ priority_out = 4
    /\ arg_row.period_num = 13
    /\ arg_row.email \in arg_survey_emails

\* C5: a source that cannot be read adds nothing to any tally and flags no
\* record, the loop goes on to the end, and the outcome (flags, credits,
\* per-source counts, e-mail set) is the outcome of the loop over the
\* readable sources alone, taken in the same order.
C5_UnreadableSourceSkipped ==
    /\ \A p \in DOMAIN survey_data_dict :
         ~survey_data_dict[p].readable =>
           /\ name_match_count[p] = 0
           /\ email_match_count[p] = 0
           /\ \A i \in DOMAIN credit : \A k \in 1..Len(credit[i]) :
                credit[i][k][1] # p
    /\ pc = "returned" =>
         LET readable == SelectSeq(order, LAMBDA p : survey_data_dict[p].readable)
             r == MergeInOrder(MergeStart(df_combined), survey_data_dict, readable)
         IN  /\ Len(order) = NumSources
             /\ r.df = df_combined
             /\ r.credit = credit
             /\ r.name_match_count = name_match_count
             /\ r.email_match_count = email_match_count
             /\ r.all_survey_emails = all_survey_emails

C5_Witness ==
    /\ pc = "returned"
    /\ ~survey_data_dict[order[1]].readable
    /\ survey_data_dict[order[2]].readable
    /\ name_match_count[order[2]] > 0
    /\ email_match_count[order[2]] > 0


\* the digit characters of a string, in order
RECURSIVE DigitsOf(_)
DigitsOf(s) ==
    IF s = <<>> THEN <<>>
    ELSE IF IsDigit(Head(s)) THEN <<Head(s)>> \o DigitsOf(Tail(s))
    ELSE DigitsOf(Tail(s))

\* the prefecture the first three digits of a postal code map to, NA if none
ResolvedPrefecture(postal_code, mapping) ==
    LET d == IF isna(postal_code) THEN <<>> ELSE DigitsOf(postal_code)
    IN  IF Len(d) >= 3 /\ SubSeq(d, 1, 3) \in DOMAIN mapping
        THEN mapping[SubSeq(d, 1, 3)]
        ELSE NA

\* the rows that had a postal code and no prefecture before the call
RowsToFill ==
    { i \in DOMAIN geo_df0 :
        ~isna(geo_df0[i].postal_code) /\ isna(geo_df0[i].prefecture) }

\* C6: after fill_prefecture_from_postal_code, every row that had a postal
\* code and no prefecture holds the prefecture mapped to the first 3 digits
\* of its postal code, or still none when there is no such prefecture;
\* filled_count counts the former rows, unfilled_count the latter, and the
\* two add up to the number of rows that had a postal code and no
\* prefecture.
C6_FillResolvesAndCounts ==
    fill_done =>
      /\ \A i \in RowsToFill :
           /\ geo_df[i].prefecture =
                ResolvedPrefecture(geo_df0[i].postal_code, fill_mapping)
           /\ geo_df[i].postal_code = geo_df0[i].postal_code
      /\ completed_count =
           Cardinality({ i \in RowsToFill :
             ~isna(ResolvedPrefecture(geo_df0[i].postal_code, fill_mapping)) })
      /\ failed_count =
           Cardinality({ i \in RowsToFill :
             isna(ResolvedPrefecture(geo_df0[i].postal_code, fill_mapping)) })
      /\ completed_count + failed_count = Cardinality(RowsToFill)

C6_Witness ==
    /\ fill_done
    /\ completed_count = 1
    /\ failed_count = 1
    /\ \E i \in RowsToFill :
         /\ geo_df0[i].postal_code = <<"1", "-", "0", "1">>
         /\ geo_df[i].prefecture = OsakaFu

C8_PostalDigitsDecide ==
    lookup_done =>
      LET d == IF isna(arg_postal_code_str) THEN <<>>
               ELSE DigitsOf(arg_postal_code_str)
      IN  /\ Len(d) < 3 => isna(prefecture_out)
          /\ Len(d) >= 3 /\ SubSeq(d, 1, 3) \in DOMAIN arg_postal_mapping =>
               prefecture_out = arg_postal_mapping[SubSeq(d, 1, 3)]
          /\ Len(d) >= 3 /\ SubSeq(d, 1, 3) \notin DOMAIN arg_postal_mapping =>
               isna(prefecture_out)
          /\ \A t \in PostalStrings :
               DigitsOf(t) = d =>
                 get_prefecture_from_postal_code(t, arg_postal_mapping)
                   = prefecture_out

C8_Witness ==
    /\ lookup_done
    /\ arg_postal_code_str = <<"1", "0", "-", "0">>
    /\ prefecture_out = TokyoTo

\* C9: normalize_name and normalize_email are idempotent: a second
\* application returns what the first returned; the empty string and a
\* missing value both give the empty string.
C9_NormalizersIdempotent ==
    /\ norm_calls >= 2 => norm_value = norm_prev
    /\ norm_calls >= 1 /\ (isna(norm_input) \/ norm_input = <<>>) =>
         norm_value = <<>>

C9_Witness ==
    /\ norm_calls = 2
    /\ norm_fn = "name"
    /\ norm_input = <<"a", "_", "a">>
    /\ norm_value = <<"a", "a">>

EndsWithSpace(s) == s # <<>> /\ IsSpace(s[Len(s)])

MaxDupRecords == 6
MaxTopN == 3

\* values of the address column; NA is a missing address
DupAddressValues == { <<"A">>, <<"B">>, <<"C">> }

DupAddressLists ==
    UNION { [1..k -> DupAddressValues \cup {NA}] : k \in 0..MaxDupRecords }

CountOf(addresses, a) ==
    Cardinality({ i \in 1..Len(addresses) : addresses[i] = a })

\* the index of df[address_column].value_counts(): the distinct non-missing
\* addresses, by non-increasing count; the sort leaves the order of equal
\* counts open, so every such order is a possible index
ValueCountsOrders(addresses) ==
    LET distinct == Range(addresses) \ {NA}
        n == Cardinality(distinct)
    IN  { seq \in [1..n -> distinct] :
            /\ \A i, j \in 1..n : seq[i] = seq[j] => i = j
            /\ \A i \in 1..n : \A j \in 1..n :
                 i < j => CountOf(addresses, seq[i]) >= CountOf(addresses, seq[j]) }

\* Series.head(n): the first n rows, all but the last -n rows when n < 0
head(seq, n) ==
    IF n >= 0 THEN SubSeq(seq, 1, IF n < Len(seq) THEN n ELSE Len(seq))
    ELSE SubSeq(seq, 1, Len(seq) + n)

\* the filter without its threshold: address_counts[address_counts >= 1]
Duplicates_all(address_counts) ==
    SelectSeq(address_counts, LAMBDA g : g.count >= 1)

\* address_counts[address_counts > 1]
Duplicates(address_counts) ==
    SelectSeq(address_counts, LAMBDA g : g.count > 1)

check_address_duplicates(index, addresses, top_n) ==
    LET address_counts ==
            [ i \in 1..Len(index) |->
                [ address |-> index[i], count |-> CountOf(addresses, index[i]) ] ]
        duplicates == Duplicates(address_counts)
        top_duplicates == head(duplicates, top_n)
    IN  [ df_duplicates |->
            [ i \in 1..Len(top_duplicates) |->
                [ rank |-> <<i, ".">>,
                  address |-> top_duplicates[i].address,
                  count |-> top_duplicates[i].count ] ],
          duplicate_count |-> Len(duplicates) ]

DupInit ==
    /\ dup_addresses \in DupAddressLists
    /\ arg_top_n \in 0..MaxTopN
    /\ df_duplicates = <<>>
    /\ duplicate_count = 0
    /\ dup_done = FALSE
    /\ MatcherIdle /\ PriorityIdle /\ NormIdle /\ PostalIdle /\ FillIdle
    /\ AddrIdle /\ RomajiIdle /\ DetailIdle /\ RaiseIdle

CallCheckAddressDuplicates ==
    /\ ~dup_done
    /\ \E index \in ValueCountsOrders(dup_addresses) :
         LET r == check_address_duplicates(index, dup_addresses, arg_top_n)
         IN  /\ df_duplicates' = r.df_duplicates
             /\ duplicate_count' = r.duplicate_count
    /\ dup_done' = TRUE
    /\ UNCHANGED << dup_addresses, arg_top_n >>
    /\ UNCHANGED << matcher_vars, priority_vars, norm_vars, postal_vars,
                    fill_vars, addr_vars, romaji_vars, detail_vars, raise_vars >>

DupNext == CallCheckAddressDuplicates

SpecDuplicates == DupInit /\ [][DupNext]_vars

\* the addresses that occur more than once
DuplicateGroups(addresses) ==
    { a \in Range(addresses) \ {NA} : CountOf(addresses, a) > 1 }

\* C11: every reported row has count > 1 (the number of records with that
\* address); the rows are distinct groups ranked 1., 2., ... by
\* non-increasing count, min(top_n, number of groups) of them, and no group
\* left out has a larger count than a reported one; the returned total is
\* the number of distinct addresses occurring more than once, whatever
\* top_n, and is smaller than the number of duplicated records whenever
\* there is one.
C11_DuplicateReport ==
    dup_done =>
      LET groups == DuplicateGroups(dup_addresses)
          n == Len(df_duplicates)
          reported == { df_duplicates[i].address : i \in 1..n }
      IN  /\ \A i \in 1..n :
                /\ df_duplicates[i].count > 1
                /\ df_duplicates[i].count = CountOf(dup_addresses, df_duplicates[i].address)
                /\ df_duplicates[i].rank = <<i, ".">>
          /\ \A i, j \in 1..n :
                /\ i < j => df_duplicates[i].count >= df_duplicates[j].count
                /\ df_duplicates[i].address = df_duplicates[j].address => i = j
          /\ n <= arg_top_n
          /\ n = IF arg_top_n < Cardinality(groups) THEN arg_top_n
                 ELSE Cardinality(groups)
          /\ \A a \in groups \ reported : \A i \in 1..n :
                CountOf(dup_addresses, a) <= df_duplicates[i].count
          /\ duplicate_count = Cardinality(groups)
          /\ \A t \in 0..MaxTopN : \A index \in ValueCountsOrders(dup_addresses) :
                check_address_duplicates(index, dup_addresses, t).duplicate_count
                  = duplicate_count
          /\ duplicate_count > 0 =>
                duplicate_count <
                  Cardinality({ i \in 1..Len(dup_addresses) : dup_addresses[i] \in groups })

C11_Witness ==
    /\ dup_done
    /\ dup_addresses = << <<"A">>, <<"A">>, <<"B">>, <<"C">>, <<"C">>, <<"C">> >>
    /\ arg_top_n = 1
    /\ df_duplicates = << [ rank |-> <<1, ".">>, address |-> <<"C">>, count |-> 3 ] >>
    /\ duplicate_count = 2


\* the name set and the e-mail set of a source, from the cells of its sheet:
\* the non-blank normalized names, and the lowercased, trimmed e-mail cells
\* that contain "@"
SurveyNameSet(p) ==
    { k \in { normalize_name(c) : c \in survey_data_dict[p].name_cells } :
        k # <<>> }

SurveyEmailSet(p) ==
    { e \in { strip(lower(c)) : c \in survey_data_dict[p].email_cells } :
        Contains(e, "@") }

InSomeSource(rec) ==
    \E p \in DOMAIN survey_data_dict :
        rec.key \in SurveyNameSet(p) \/ rec.email \in SurveyEmailSet(p)

\* C12: when all sources have been processed, a record is flagged responded
\* exactly when its name key is in the name set of some source or its
\* e-mail is in the e-mail set of some source; a record whose name key and
\* e-mail are both empty is never flagged; and no step of the loop takes a
\* flag from true back to false.
C12_FlagIffInSomeSource ==
    /\ [](pc \in {"returned", "ranked"} =>
            \A i \in DOMAIN df_combined :
              df_combined[i].responded <=> InSomeSource(df_combined[i]))
    /\ [](\A i \in DOMAIN df_combined :
            df_combined[i].key = <<>> /\ df_combined[i].email = <<>> =>
              ~df_combined[i].responded)
    /\ [][\A i \in DOMAIN df_combined :
            df_combined[i].responded => df_combined'[i].responded]_vars

C12_Witness ==
    /\ pc = "returned"
    /\ \E p \in DOMAIN survey_data_dict : <<" ">> \in survey_data_dict[p].name_cells
    /\ \E i, j \in DOMAIN df_combined :
         /\ df_combined[i].email = <<>>
         /\ df_combined[i].responded
         /\ df_combined[j].key = <<>>
         /\ df_combined[j].email = <<>>
         /\ ~df_combined[j].responded


\* the prefectures the municipality table maps a prefix of the address to
CityPrefecturesOf(a) ==
    { CITY_TO_PREFECTURE[i][2] :
        i \in { k \in 1..Len(CITY_TO_PREFECTURE) :
                  StartsWith(a, CITY_TO_PREFECTURE[k][1]) } }

\* the three-way rule of standardize_address for the address a
PrecedenceRule(a, known, out) ==
    /\ CityPrefecturesOf(a) # {} =>
         \E pref \in CityPrefecturesOf(a) : out = pref \o a
    /\ CityPrefecturesOf(a) = {} /\ Truthy(known) => out = known \o a
    /\ CityPrefecturesOf(a) = {} /\ ~Truthy(known) => out = a

PeriodCells ==
    { [kind |-> "int", value |-> n] : n \in PeriodRange } \cup
    { [kind |-> k, value |-> 0] : k \in {"none", "nan", "text"} }

\* What Python does with row['期_番号']: an integer goes through the
\* decision table; NaN compares False everywhere and reaches the else
\* branch; None and text compare unequal to 12 and then make the test
\* 7 <= period_num raise TypeError.
calculate_priority_outcome(raw_row, survey_emails) ==
    LET cell == raw_row.period_num
    IN  IF cell.kind = "int"
        THEN [ raised |-> FALSE,
               value |-> calculate_priority(
                           [period_num |-> cell.value, email |-> raw_row.email],
                           survey_emails) ]
        ELSE IF cell.kind = "nan" THEN [ raised |-> FALSE, value |-> 4 ]
        ELSE [ raised |-> TRUE, value |-> 0 ]

PriorityAnyInit ==
    /\ arg_raw_row \in [ period_num : PeriodCells, email : CustomerEmails ]
    /\ arg_survey_emails \in SUBSET SurveyEmailValues
    /\ priority_out = 0
    /\ priority_raised = FALSE
    /\ arg_row = [period_num |-> 0, email |-> <<>>]
    /\ MatcherIdle /\ NormIdle /\ PostalIdle /\ FillIdle /\ AddrIdle
    /\ DupIdle /\ RomajiIdle /\ DetailIdle

CallCalculatePriorityAny ==
    /\ priority_out = 0
    /\ ~priority_raised
    /\ LET r == calculate_priority_outcome(arg_raw_row, arg_survey_emails)
       IN  /\ priority_out' = r.value
           /\ priority_raised' = r.raised
    /\ UNCHANGED << arg_row, arg_survey_emails, arg_raw_row >>
    /\ UNCHANGED << matcher_vars, norm_vars, postal_vars, fill_vars, addr_vars,
                    dup_vars, romaji_vars, detail_vars >>

PriorityAnyNext == CallCalculatePriorityAny

SpecPriorityAny == PriorityAnyInit /\ [][PriorityAnyNext]_vars

\* C14: calculate_priority never raises on a malformed cohort: when the
\* cohort is missing, not a number, or an integer outside 1..12, the call
\* returns 4 and raises nothing.
C14_MalformedCohortIsFour ==
    (priority_out # 0 \/ priority_raised) =>
      LET cell == arg_raw_row.period_num
      IN  (cell.kind # "int" \/ cell.value \notin 1..12) =>
            ~priority_raised /\ priority_out = 4


\* ======================================================================
\* [10] convert_romaji_address_to_japanese
\* ======================================================================
MaxPieces == 3

\* romanized place name -> Japanese, as <<romaji, japanese>> pairs in the
\* iteration order of the dict (a key written twice keeps its first place)
ROMAJI_TO_JAPANESE_PLACE ==
    <<
      <<<<"T", "o", "k", "y", "o">>, <<"u6771", "u4EAC", "u90FD">>>>,  \* Tokyo: 東京都
      <<<<"O", "s", "a", "k", "a">>, <<"u5927", "u962A", "u5E9C">>>>,  \* Osaka: 大阪府
      <<<<"K", "y", "o", "t", "o">>, <<"u4EAC", "u90FD", "u5E9C">>>>,  \* Kyoto: 京都府
      <<<<"H", "o", "k", "k", "a", "i", "d", "o">>, <<"u5317", "u6D77", "u9053">>>>,  \* Hokkaido: 北海道
      <<<<"F", "u", "k", "u", "o", "k", "a">>, <<"u798F", "u5CA1", "u770C">>>>,  \* Fukuoka: 福岡県
      <<<<"N", "a", "g", "a", "s", "a", "k", "i">>, <<"u9577", "u5D0E", "u770C">>>>,  \* Nagasaki: 長崎県
      <<<<"H", "i", "r", "o", "s", "h", "i", "m", "a">>, <<"u5E83", "u5CF6", "u770C">>>>,  \* Hiroshima: 広島県
      <<<<"Y", "o", "k", "o", "h", "a", "m", "a">>, <<"u795E", "u5948", "u5DDD", "u770C">>>>,  \* Yokohama: 神奈川県
      <<<<"N", "a", "g", "o", "y", "a">>, <<"u611B", "u77E5", "u770C">>>>,  \* Nagoya: 愛知県
      <<<<"S", "a", "p", "p", "o", "r", "o">>, <<"u5317", "u6D77", "u9053">>>>,  \* Sapporo: 北海道
      <<<<"K", "o", "b", "e">>, <<"u5175", "u5EAB", "u770C">>>>,  \* Kobe: 兵庫県
      <<<<"S", "e", "n", "d", "a", "i">>, <<"u5BAE", "u57CE", "u770C">>>>,  \* Sendai: 宮城県
      <<<<"S", "h", "i", "b", "u", "y", "a">>, <<"u6E0B", "u8C37", "u533A">>>>,  \* Shibuya: 渋谷区
      <<<<"S", "h", "i", "n", "j", "u", "k", "u">>, <<"u65B0", "u5BBF", "u533A">>>>,  \* Shinjuku: 新宿区
      <<<<"M", "i", "n", "a", "t", "o">>, <<"u6E2F", "u533A">>>>,  \* Minato: 港区
      <<<<"C", "h", "i", "y", "o", "d", "a">>, <<"u5343", "u4EE3", "u7530", "u533A">>>>,  \* Chiyoda: 千代田区
      <<<<"C", "h", "u", "o">>, <<"u4E2D", "u592E", "u533A">>>>,  \* Chuo: 中央区
      <<<<"S", "e", "t", "a", "g", "a", "y", "a">>, <<"u4E16", "u7530", "u8C37", "u533A">>>>,  \* Setagaya: 世田谷区
      <<<<"M", "e", "g", "u", "r", "o">>, <<"u76EE", "u9ED2", "u533A">>>>,  \* Meguro: 目黒区
      <<<<"S", "h", "i", "n", "a", "g", "a", "w", "a">>, <<"u54C1", "u5DDD", "u533A">>>>,  \* Shinagawa: 品川区
      <<<<"O", "t", "a">>, <<"u5927", "u7530", "u533A">>>>,  \* Ota: 大田区
      <<<<"S", "u", "g", "i", "n", "a", "m", "i">>, <<"u6749", "u4E26", "u533A">>>>,  \* Suginami: 杉並区
      <<<<"N", "a", "k", "a", "n", "o">>, <<"u4E2D", "u91CE", "u533A">>>>,  \* Nakano: 中野区
      <<<<"T", "o", "s", "h", "i", "m", "a">>, <<"u8C4A", "u5CF6", "u533A">>>>,  \* Toshima: 豊島区
      <<<<"B", "u", "n", "k", "y", "o">>, <<"u6587", "u4EAC", "u533A">>>>,  \* Bunkyo: 文京区
      <<<<"T", "a", "i", "t", "o">>, <<"u53F0", "u6771", "u533A">>>>,  \* Taito: 台東区
      <<<<"S", "u", "m", "i", "d", "a">>, <<"u58A8", "u7530", "u533A">>>>,  \* Sumida: 墨田区
      <<<<"K", "o", "t", "o">>, <<"u6C5F", "u6771", "u533A">>>>,  \* Koto: 江東区
      <<<<"K", "i", "t", "a">>, <<"u5317", "u533A">>>>,  \* Kita: 北区
      <<<<"A", "r", "a", "k", "a", "w", "a">>, <<"u8352", "u5DDD", "u533A">>>>,  \* Arakawa: 荒川区
      <<<<"I", "t", "a", "b", "a", "s", "h", "i">>, <<"u677F", "u6A4B", "u533A">>>>,  \* Itabashi: 板橋区
      <<<<"N", "e", "r", "i", "m", "a">>, <<"u7DF4", "u99AC", "u533A">>>>,  \* Nerima: 練馬区
      <<<<"A", "d", "a", "c", "h", "i">>, <<"u8DB3", "u7ACB", "u533A">>>>,  \* Adachi: 足立区
      <<<<"K", "a", "t", "s", "u", "s", "h", "i", "k", "a">>, <<"u845B", "u98FE", "u533A">>>>,  \* Katsushika: 葛飾区
      <<<<"E", "d", "o", "g", "a", "w", "a">>, <<"u6C5F", "u6238", "u5DDD", "u533A">>>>,  \* Edogawa: 江戸川区
      <<<<"K", "a", "w", "a", "s", "a", "k", "i">>, <<"u5DDD", "u5D0E", "u5E02">>>>,  \* Kawasaki: 川崎市
      <<<<"S", "a", "g", "a", "m", "i", "h", "a", "r", "a">>, <<"u76F8", "u6A21", "u539F", "u5E02">>>>,  \* Sagamihara: 相模原市
      <<<<"F", "u", "j", "i", "s", "a", "w", "a">>, <<"u85E4", "u6CA2", "u5E02">>>>,  \* Fujisawa: 藤沢市
      <<<<"K", "a", "m", "a", "k", "u", "r", "a">>, <<"u938C", "u5009", "u5E02">>>>,  \* Kamakura: 鎌倉市
      <<<<"Y", "o", "k", "o", "s", "u", "k", "a">>, <<"u6A2A", "u9808", "u8CC0", "u5E02">>>>,  \* Yokosuka: 横須賀市
      <<<<"S", "a", "i", "t", "a", "m", "a">>, <<"u3055", "u3044", "u305F", "u307E", "u5E02">>>>,  \* Saitama: さいたま市
      <<<<"K", "a", "w", "a", "g", "o", "e">>, <<"u5DDD", "u8D8A", "u5E02">>>>,  \* Kawagoe: 川越市
      <<<<"C", "h", "i", "b", "a">>, <<"u5343", "u8449", "u5E02">>>>,  \* Chiba: 千葉市
      <<<<"F", "u", "n", "a", "b", "a", "s", "h", "i">>, <<"u8239", "u6A4B", "u5E02">>>>,  \* Funabashi: 船橋市
      <<<<"M", "a", "t", "s", "u", "d", "o">>, <<"u677E", "u6238", "u5E02">>>>,  \* Matsudo: 松戸市
      <<<<"K", "a", "s", "h", "i", "w", "a">>, <<"u67CF", "u5E02">>>>,  \* Kashiwa: 柏市
      <<<<"T", "o", "m", "a", "c", "h", "i">>, <<"u6238", "u753A">>>>  \* Tomachi: 戸町
    >>

\* s[i..] starts with sub
MatchAt(s, i, sub) ==
    i + Len(sub) - 1 <= Len(s) /\ SubSeq(s, i, i + Len(sub) - 1) = sub

\* sub in s
ContainsSub(s, sub) == \E i \in 1..Len(s) : MatchAt(s, i, sub)

\* the first position of a set of match positions
FirstOf(hits) == CHOOSE i \in hits : \A j \in hits : i <= j

\* str.replace(old, new): every occurrence, left to right, no overlap
RECURSIVE StrReplace(_, _, _)
StrReplace(s, old, new) ==
    LET hits == { i \in 1..Len(s) : MatchAt(s, i, old) }
    IN  IF hits = {} THEN s
        ELSE SubSeq(s, 1, FirstOf(hits) - 1) \o new
                 \o StrReplace(SubSeq(s, FirstOf(hits) + Len(old), Len(s)),
                               old, new)

\* key occurs in s at position i, letter case ignored
KeyAt(s, i, key) ==
    i + Len(key) - 1 <= Len(s) /\ lower(SubSeq(s, i, i + Len(key) - 1)) = lower(key)

\* re.compile(re.escape(romaji), re.IGNORECASE).sub(japanese, s): every
\* match, left to right, no overlap
RECURSIVE SubIgnoreCase(_, _, _)
SubIgnoreCase(s, romaji, japanese) ==
    LET hits == { i \in 1..Len(s) : KeyAt(s, i, romaji) }
    IN  IF hits = {} THEN s
        ELSE SubSeq(s, 1, FirstOf(hits) - 1) \o japanese
                 \o SubIgnoreCase(SubSeq(s, FirstOf(hits) + Len(romaji), Len(s)),
                                  romaji, japanese)

\* for romaji, japanese in ROMAJI_TO_JAPANESE_PLACE.items(): from entry i on
RECURSIVE ApplyTable(_, _)
ApplyTable(s, i) ==
    IF i > Len(ROMAJI_TO_JAPANESE_PLACE) THEN s
    ELSE IF \A j \in 1..Len(s) : ~KeyAt(s, j, ROMAJI_TO_JAPANESE_PLACE[i][1])
         THEN ApplyTable(s, i + 1)     \* no match: sub() returns s itself
         ELSE ApplyTable(SubIgnoreCase(s, ROMAJI_TO_JAPANESE_PLACE[i][1],
                                       ROMAJI_TO_JAPANESE_PLACE[i][2]), i + 1)

NagasakiKen == <<"u9577", "u5D0E", "u770C">>
NagasakiShi == <<"u9577", "u5D0E", "u5E02">>
Tomachi == <<"u6238", "u753A">>

\* the cleanup of the Nagasaki special case
NagasakiCleanup(a) ==
    IF StartsWith(a, NagasakiKen) /\ ~ContainsSub(a, NagasakiShi)
    THEN StrReplace(a, NagasakiKen \o Tomachi,
                    NagasakiKen \o NagasakiShi \o Tomachi)
    ELSE a

\* the function without the test address != original_address
convert_romaji_address_no_change_test(address) ==
    IF isna(address) \/ address = <<>> THEN address
    ELSE NagasakiCleanup(ApplyTable(strip(address), 1))

convert_romaji_address_to_japanese(address) ==
    IF isna(address) \/ address = <<>> THEN address
    ELSE LET original_address == strip(address)
             a == ApplyTable(original_address, 1)
         IN  IF a # original_address THEN NagasakiCleanup(a) ELSE a

\* the addresses of the model: up to MaxPieces pieces, one after the other
RomajiPieces ==
    { <<"N", "a", "g", "a", "s", "a", "k", "i">>,
      <<"n", "a", "g", "a", "s", "a", "k", "i">>,
      <<"T", "o", "m", "a", "c", "h", "i">>,
      <<"T", "O", "M", "A", "C", "H", "I">>,
      <<"T", "o", "k", "y", "o">>,
      <<"b", "a">>,
      <<" ">>,
      <<"2">>,
      NagasakiShi,
      NagasakiKen \o Tomachi }

RECURSIVE RomajiAddresses(_)
RomajiAddresses(n) ==
    IF n = 0 THEN { <<>> }
    ELSE LET shorter == RomajiAddresses(n - 1)
         IN  shorter \cup { a \o q : a \in shorter, q \in RomajiPieces }

RomajiInit ==
    /\ arg_romaji_address \in {NA} \cup RomajiAddresses(MaxPieces)
    /\ romaji_out = NA
    /\ romaji_done = FALSE
    /\ MatcherIdle /\ PriorityIdle /\ NormIdle /\ PostalIdle /\ FillIdle
    /\ AddrIdle /\ DupIdle /\ DetailIdle /\ RaiseIdle

CallConvertRomaji ==
    /\ ~romaji_done
    /\ romaji_out' = convert_romaji_address_to_japanese(arg_romaji_address)
    /\ romaji_done' = TRUE
    /\ UNCHANGED arg_romaji_address
    /\ UNCHANGED << matcher_vars, priority_vars, norm_vars, postal_vars,
                    fill_vars, addr_vars, dup_vars, detail_vars, raise_vars >>

RomajiNext == CallConvertRomaji

SpecRomaji == RomajiInit /\ [][RomajiNext]_vars

\* ----------------------------------------------------------------------
\* C15
\* ----------------------------------------------------------------------
RomajiNagasaki == ROMAJI_TO_JAPANESE_PLACE[6][1]
RomajiTomachi == ROMAJI_TO_JAPANESE_PLACE[Len(ROMAJI_TO_JAPANESE_PLACE)][1]

\* some table key occurs in s, letter case ignored
HasTableKey(s) ==
    \E k \in 1..Len(ROMAJI_TO_JAPANESE_PLACE), i \in 1..Len(s) :
        KeyAt(s, i, ROMAJI_TO_JAPANESE_PLACE[k][1])

\* a is Nagasaki followed by Tomachi, in any letter case, and a remainder
NagasakiTomachiAddress(a) ==
    /\ ~isna(a)
    /\ KeyAt(a, 1, RomajiNagasaki)
    /\ KeyAt(a, 1 + Len(RomajiNagasaki), RomajiTomachi)

Remainder(a) ==
    SubSeq(a, 1 + Len(RomajiNagasaki) + Len(RomajiTomachi), Len(a))

\* the only table keys in a are the leading Nagasaki and the Tomachi after it
OnlyNagasakiTomachi(a) ==
    \A k \in 1..Len(ROMAJI_TO_JAPANESE_PLACE), i \in 1..Len(a) :
        KeyAt(a, i, ROMAJI_TO_JAPANESE_PLACE[k][1])
            => \/ i = 1 /\ ROMAJI_TO_JAPANESE_PLACE[k][1] = RomajiNagasaki
               \/ i = 1 + Len(RomajiNagasaki)
                  /\ ROMAJI_TO_JAPANESE_PLACE[k][1] = RomajiTomachi

\* the cleanup runs exactly when the pass over the table changed the trimmed
\* address, the result starts with the prefecture and holds no city name
CleanupOnlyWhenDue ==
    (romaji_done /\ ~isna(arg_romaji_address) /\ arg_romaji_address # <<>>) =>
        LET original_address == strip(arg_romaji_address)
            passed == ApplyTable(original_address, 1)
            due == /\ passed # original_address
                   /\ StartsWith(passed, NagasakiKen)
                   /\ ~ContainsSub(passed, NagasakiShi)
        IN  romaji_out = IF due
                         THEN StrReplace(passed, NagasakiKen \o Tomachi,
                                         NagasakiKen \o NagasakiShi \o Tomachi)
                         ELSE passed

\* an address no table entry matches comes back trimmed and otherwise as it was
UnmatchedReturnedAsIs ==
    (romaji_done /\ ~isna(arg_romaji_address)
                 /\ ~HasTableKey(arg_romaji_address)) =>
        romaji_out = strip(arg_romaji_address)

CustomerNames == { <<>>, <<"a">>, <<"a", "_">> }

\* a row of the customer table: the name key is the normalized raw name
CustomerRow(name, email) ==
    [ name |-> name, key |-> normalize_name(name), email |-> email,
      responded |-> FALSE ]

\* df_combined[mask], as the row labels in table order
MatchedCustomers(df, mask) ==
    SelectSeq([ i \in 1..Len(df) |-> i ], LAMBDA i : i \in mask)

\* the records appended for one survey name or one survey e-mail
DetailRecords(df, mask, survey_name, survey_email, method, p) ==
    LET matched_customers == MatchedCustomers(df, mask)
    IN  [ k \in 1..Len(matched_customers) |->
            [ customer_name |-> df[matched_customers[k]].name,
              customer_email |-> df[matched_customers[k]].email,
              survey_name |-> survey_name,
              survey_email |-> survey_email,
              method |-> method,
              period |-> p ] ]

\* for survey_name in survey_names: ...
RECURSIVE DetailNameLoop(_, _, _, _)
DetailNameLoop(names, df, p, detail_records) ==
    IF names = {} THEN detail_records
    ELSE LET survey_name == CHOOSE n \in names : TRUE
             mask == { i \in DOMAIN df : df[i].key = survey_name }
         IN  DetailNameLoop(names \ {survey_name}, df, p,
                 detail_records
                     \o DetailRecords(df, mask, survey_name, <<>>, "name", p))

\* for survey_email in survey_emails: ...
RECURSIVE DetailEmailLoop(_, _, _, _, _)
DetailEmailLoop(emails, survey_names, df, p, detail_records) ==
    IF emails = {} THEN detail_records
    ELSE LET survey_email == CHOOSE e \in emails : TRUE
             mask == { i \in DOMAIN df : /\ df[i].email = survey_email
                                         /\ df[i].key \notin survey_names }
         IN  DetailEmailLoop(emails \ {survey_email}, survey_names, df, p,
                 detail_records
                     \o DetailRecords(df, mask, <<>>, survey_email, "email", p))

\* the loop over survey_data_dict.items(), for the sources in the order seq
RECURSIVE DetailLoop(_, _, _, _)
DetailLoop(df, dict, seq, detail_records) ==
    IF seq = <<>> THEN detail_records
    ELSE LET extracted == extract_survey_data(dict[Head(seq)])
             after_names == DetailNameLoop(extracted.names, df, Head(seq),
                                           detail_records)
         IN  DetailLoop(df, dict, Tail(seq),
                 DetailEmailLoop(extracted.emails, extracted.names, df,
                                 Head(seq), after_names))

CustomerOf(row) == << row.customer_name, row.customer_email >>

\* drop_duplicates over the same subset with keep='last'
drop_duplicates_keep_last(rows) ==
    SelectSeq([ k \in 1..Len(rows) |->
                  [ row |-> rows[k],
                    dup |-> \E j \in (k + 1)..Len(rows) :
                                CustomerOf(rows[j]) = CustomerOf(rows[k]) ] ],
              LAMBDA r : ~r.dup)

\* drop_duplicates(subset=[customer name, customer e-mail], keep='first')
drop_duplicates(rows) ==
    SelectSeq([ k \in 1..Len(rows) |->
                  [ row |-> rows[k],
                    dup |-> \E j \in 1..(k - 1) :
                                CustomerOf(rows[j]) = CustomerOf(rows[k]) ] ],
              LAMBDA r : ~r.dup)

generate_survey_response_details(df, dict, seq) ==
    LET detail_records == DetailLoop(df, dict, seq, <<>>)
        kept == IF Len(detail_records) > 0 THEN drop_duplicates(detail_records)
                ELSE detail_records
    IN  [ k \in 1..Len(kept) |-> kept[k].row ]

DetailInit ==
    /\ det_df \in
         { [ i \in Records |-> CustomerRow(c[i].name, c[i].email) ] :
             c \in [ Records -> [ name : CustomerNames, email : CustomerEmails ] ] }
    /\ det_dict \in [ Periods -> SurveyFiles ]
    /\ det_order \in SourceOrders
    /\ det_credit = [ i \in Records |-> <<>> ]
    /\ df_details = <<>>
    /\ det_pc = "start"
    /\ MatcherIdle /\ PriorityIdle /\ NormIdle /\ PostalIdle /\ FillIdle
    /\ AddrIdle /\ DupIdle /\ RomajiIdle /\ RaiseIdle

\* merge_survey_data_enhanced(df_combined, survey_data_dict)
RunMatcher ==
    /\ det_pc = "start"
    /\ LET r == MergeInOrder(MergeStart(det_df), det_dict, det_order)
       IN  /\ det_df' = r.df
           /\ det_credit' = r.credit
    /\ det_pc' = "matched"
    /\ UNCHANGED << det_dict, det_order, df_details >>
    /\ UNCHANGED << matcher_vars, priority_vars, norm_vars, postal_vars,
                    fill_vars, addr_vars, dup_vars, romaji_vars, raise_vars >>

\* generate_survey_response_details(df_combined, survey_data_dict)
BuildDetails ==
    /\ det_pc = "matched"
    /\ df_details' = generate_survey_response_details(det_df, det_dict, det_order)
    /\ det_pc' = "reported"
    /\ UNCHANGED << det_df, det_dict, det_order, det_credit >>
    /\ UNCHANGED << matcher_vars, priority_vars, norm_vars, postal_vars,
                    fill_vars, addr_vars, dup_vars, romaji_vars, raise_vars >>

DetailNext == RunMatcher \/ BuildDetails

SpecDetails == DetailInit /\ [][DetailNext]_vars

\* ----------------------------------------------------------------------
\* C16
\* ----------------------------------------------------------------------
ReportedCustomers == { CustomerOf(df_details[k]) : k \in 1..Len(df_details) }

FlaggedCustomers ==
    { << det_df[i].name, det_df[i].email >> : i \in Responded(det_df) }

\* C16: on the same table and the same ordered sources, the report has at
\* most one row per customer (raw name, e-mail), its customers are exactly
\* the ones the matcher flagged, and the method and source of a customer's
\* row are the pass and the source the matcher credited for that customer.
C16_ReportAgreesWithMatcher ==
    det_pc = "reported" =>
        /\ \A j, k \in 1..Len(df_details) :
               CustomerOf(df_details[j]) = CustomerOf(df_details[k]) => j = k
        /\ ReportedCustomers = FlaggedCustomers
        /\ \A k \in 1..Len(df_details), i \in DOMAIN det_df :
               << det_df[i].name, det_df[i].email >> = CustomerOf(df_details[k])
                   => det_credit[i]
                        = << << df_details[k].period, df_details[k].method >> >>

\* a customer matched by e-mail in the first source and by name in the second
\* is reported once, for the first source
C16_Witness ==
    /\ det_pc = "reported"
    /\ Len(df_details) >= 1
    /\ \E k \in 1..Len(df_details), i \in DOMAIN det_df :
           /\ << det_df[i].name, det_df[i].email >> = CustomerOf(df_details[k])
           /\ df_details[k].method = "email"
           /\ df_details[k].period = det_order[1]
           /\ det_df[i].key \in extract_survey_data(det_dict[det_order[2]]).names

=============================================================================
